---- MODULE Spec2Model ----
(***************************************************************************)
(* Conway's Game of Life on a toroidal grid: the Universe of src/lib.rs.   *)
(*                                                                         *)
(* The universe is the triple (width, height, cells); cells is the flat    *)
(* row-major Vec<Cell>.  Rust vectors are 0-based and TLA+ sequences are   *)
(* 1-based: the cell at flat index i is cells[i + 1].                      *)
(*                                                                         *)
(* u32 values are written as the representative of their residue modulo    *)
(* 2^32 that lies in [-2^31, 2^31): a negative representative r stands for *)
(* the u32 value 2^32 + r.  A negative representative converted with       *)
(* `as usize` is an index of at least 2^31, beyond any modelled Vec.  The  *)
(* operators of the u32 section compute the wrapping operations on         *)
(* representatives without leaving that interval; a build with overflow    *)
(* checks panics where the u32 operation would wrap.                       *)
(***************************************************************************)
EXTENDS Integers, Sequences, FiniteSets, TLC

VARIABLES width, height, cells, overflow_checks, panic, call, pre, ticks

vars == <<width, height, cells, overflow_checks, panic, call, pre, ticks>>

(* ------------------------------ bounds --------------------------------- *)

\* Spec: universes of at most MaxCells cells.
MaxCells == 4

\* Spec: at most MaxPairs pairs in the list handed to set_cells.
MaxPairs == 2

\* Spec: at most MaxTicks calls of tick in a row.
MaxTicks == 2

\* SpecGlider, SpecBlock: the large all-Dead universes have 8..MaxLargeDim
\* columns and 8..MaxLargeDim rows.
MaxLargeDim == 8

\* SpecGlider: at most MaxGliderTicks calls of tick after the glider is inserted.
MaxGliderTicks == 4

\* SpecBlock: at most MaxBlockTicks calls of tick after the block is set.
MaxBlockTicks == 2

\* SpecStamp: universes of at most MaxStampDim columns and rows.
MaxStampDim == 4

\* SpecStamp: initial grids differ from all-Dead or all-Alive in at most MaxOdd cells.
MaxOdd == 1

\* Spec: the arguments of set_width and set_height whose product with a small
\* dimension exceeds u32::MAX: 2^30 (4 * 2^30 = 2^32), 1431655765
\* (3 * 1431655765 = 2^32 + 1) and u32::MAX (as its representative).
OverflowArgs == {1073741824, 1431655765, -1}

\* SpecNeigh: universes of at most MaxNeighCells cells.
MaxNeighCells == 9

\* SpecShift: universes of at most MaxShiftCells cells.
MaxShiftCells == 6

(* ------------------------------- Cell ---------------------------------- *)

Dead == 0

Alive == 1

Cell == {Dead, Alive}

toggle(c) == IF c = Alive THEN Dead ELSE Alive

(* --------------------------- panics of a call -------------------------- *)

NoPanic == "none"

IndexOutOfBounds == "index out of bounds"

SubtractOverflow == "attempt to subtract with overflow"

RemainderByZero == "attempt to calculate the remainder with a divisor of zero"

MultiplyOverflow == "attempt to multiply with overflow"

AddOverflow == "attempt to add with overflow"

Panics ==
    {NoPanic, IndexOutOfBounds, SubtractOverflow, RemainderByZero,
     MultiplyOverflow, AddOverflow}

(* -------------------------------- u32 --------------------------------- *)

\* u32::MAX, 2^32 - 1.
U32Max == -1

\* i32::MAX, 2^31 - 1: the largest representative.
RepMax == 2147483647

\* a < b as u32 values.
ULess(a, b) == IF (a >= 0) = (b >= 0) THEN a < b ELSE b < 0

\* Values whose product with one another stays below 2^31.
Small(a) == a >= 0 /\ a <= 46340

\* The four bytes of a u32 value, least significant first.
Limbs(a) ==
    << a % 256, (a \div 256) % 256, (a \div 65536) % 256, (a \div 16777216) % 256 >>

\* The representative of the u32 value with bytes l.
FromLimbs(l) ==
    (IF l[4] >= 128 THEN l[4] - 256 ELSE l[4]) * 16777216
        + l[3] * 65536 + l[2] * 256 + l[1]

\* Column k (0..6) of the long multiplication of the byte sequences A and B,
\* from term i on: the sum of the A[i] * B[j] with (i - 1) + (j - 1) = k.
RECURSIVE Column(_, _, _, _)
Column(A, B, k, i) ==
    IF i > 4
    THEN 0
    ELSE (IF (k + 2) - i >= 1 /\ (k + 2) - i <= 4 THEN A[i] * B[(k + 2) - i] ELSE 0)
             + Column(A, B, k, i + 1)

\* The long multiplication from column k on, with the carry into column k and
\* the bytes of the columns before it.  Columns 0..3 give the product modulo
\* 2^32; the product is 2^32 or more when anything is left for columns 4..6.
RECURSIVE MulColumns(_, _, _, _, _)
MulColumns(A, B, k, carry, digits) ==
    IF k = 4
    THEN [value    |-> FromLimbs(digits),
          overflow |-> carry + Column(A, B, 4, 1) + Column(A, B, 5, 1)
                           + Column(A, B, 6, 1) > 0]
    ELSE MulColumns(A, B, k + 1, (Column(A, B, k, 1) + carry) \div 256,
                    Append(digits, (Column(A, B, k, 1) + carry) % 256))

\* The product of two u32 values by long multiplication on bytes: `value` is
\* the product modulo 2^32, `overflow` says that the product is 2^32 or more.
MulFull(a, b) == MulColumns(Limbs(a), Limbs(b), 0, 0, << >>)

\* a * b exceeds u32::MAX.
MulOverflows(a, b) == ~(Small(a) /\ Small(b)) /\ MulFull(a, b).overflow

\* a * b modulo 2^32.
wrapping_mul(a, b) == IF Small(a) /\ Small(b) THEN a * b ELSE MulFull(a, b).value

\* a + b exceeds u32::MAX: (2^32 + a) + b with a < 0 <= b is 2^32 or more
\* exactly when a + b >= 0, and the sum of two values of at least 2^31 always is.
AddOverflows(a, b) ==
    \/ a < 0 /\ b < 0
    \/ a < 0 /\ b >= 0 /\ a + b >= 0
    \/ b < 0 /\ a >= 0 /\ a + b >= 0

\* a + b modulo 2^32.
wrapping_add(a, b) ==
    IF (a >= 0) # (b >= 0)
    THEN a + b
    ELSE IF a >= 0
    THEN IF a <= RepMax - b
         THEN a + b
         ELSE ((((a - RepMax) - 1) + b) - RepMax) - 1
    ELSE IF a >= ((0 - RepMax) - b) - 1
         THEN a + b
         ELSE ((a + RepMax) + 1) + ((b + RepMax) + 1)

\* a - b modulo 2^32; the difference is below 0 when ULess(a, b).
wrapping_sub(a, b) ==
    IF (a >= 0) = (b >= 0)
    THEN a - b
    ELSE IF a >= 0
    THEN IF a <= RepMax + b
         THEN a - b
         ELSE ((((a - RepMax) - 1) - b) - RepMax) - 1
    ELSE IF a >= (b - RepMax) - 1
         THEN a - b
         ELSE ((((a + RepMax) + 1) - b) + RepMax) + 1

\* (x + y) % b for x, y in 0..b-1.
AddMod(x, y, b) == IF x >= b - y THEN x - (b - y) ELSE x + y

\* a % b as u32 values, b # 0.
wrapping_rem(a, b) ==
    IF a >= 0 /\ b > 0
    THEN a % b
    ELSE IF b < 0
    THEN IF ULess(a, b) THEN a ELSE wrapping_sub(a, b)
    ELSE LET m == RepMax % b
             p == AddMod(AddMod(m, m, b), 2 % b, b)
         IN  AddMod(p, a % b, b)

(* ---------------------------- Universe --------------------------------- *)

\* The universe as a value: what a call starts from.
Universe == [width |-> width, height |-> height, cells |-> cells]

\* product + col of get_index, `product` being row * self.width as MulFull
\* gives it.  In a build with overflow checks the product and the sum panic
\* when they exceed u32::MAX; in a build without they wrap.
IndexOfProduct(checks, product, col) ==
    IF checks /\ product.overflow
    THEN [i |-> 0, panic |-> MultiplyOverflow]
    ELSE IF checks /\ AddOverflows(product.value, col)
    THEN [i |-> 0, panic |-> AddOverflow]
    ELSE [i |-> wrapping_add(product.value, col), panic |-> NoPanic]

\* Universe::get_index: (row * self.width + col) as usize.  (The product and
\* the sum of Small values are below 2^31: neither overflows.)
get_index(w, checks, row, col) ==
    IF Small(row) /\ Small(w) /\ Small(col)
    THEN [i |-> row * w + col, panic |-> NoPanic]
    ELSE IndexOfProduct(checks, MulFull(row, w), col)

\* self.cells[i]: the bounds check of Vec indexing, on the usize value of i.
InBounds(cs, i) == i >= 0 /\ i < Len(cs)

AllDead(n) == [k \in 1..n |-> Dead]

(* ----------------------- neighbour counting ---------------------------- *)

\* A variant of the deltas without the "- 1".
DeltasNoMinusOne(n) == <<n, 0, 1>>

\* [self.height - 1, 0, 1] and [self.width - 1, 0, 1]: the deltas, in loop order.
\* With n = 0 the first is 2^32 - 1 (here -1) in a build without overflow checks.
Deltas(n) == <<wrapping_sub(n, 1), 0, 1>>

\* count += self.cells[idx] as u8, idx being what get_index gave (g): the
\* panic of get_index, or the bounds-checked read.
NeighRead(cs, g) ==
    IF g.panic # NoPanic
    THEN [add |-> 0, panic |-> g.panic]
    ELSE IF InBounds(cs, g.i)
    THEN [add |-> cs[g.i + 1], panic |-> NoPanic]
    ELSE [add |-> 0, panic |-> IndexOutOfBounds]

\* A variant of the loop body without the `continue` on the (0, 0) delta.
NeighTermNoSkip(w, h, cs, checks, row, col, d_row, d_col) ==
    IF checks /\ AddOverflows(row, d_row)
    THEN [add |-> 0, panic |-> AddOverflow]
    ELSE IF h = 0
    THEN [add |-> 0, panic |-> RemainderByZero]
    ELSE IF checks /\ AddOverflows(col, d_col)
    THEN [add |-> 0, panic |-> AddOverflow]
    ELSE IF w = 0
    THEN [add |-> 0, panic |-> RemainderByZero]
    ELSE NeighRead(cs, get_index(w, checks,
                                 wrapping_rem(wrapping_add(row, d_row), h),
                                 wrapping_rem(wrapping_add(col, d_col), w)))

\* One pass of the inner loop body of neigh_alive_count: what it adds to count,
\* or the panic of the sums, of the remainders, of get_index or of the indexing.
\* n_row = (row + d_row) % self.height and n_col = (col + d_col) % self.width
\* are the arguments of get_index.
NeighTerm(w, h, cs, checks, row, col, d_row, d_col) ==
    IF d_row = 0 /\ d_col = 0
    THEN [add |-> 0, panic |-> NoPanic]
    ELSE IF checks /\ AddOverflows(row, d_row)
    THEN [add |-> 0, panic |-> AddOverflow]
    ELSE IF h = 0
    THEN [add |-> 0, panic |-> RemainderByZero]
    ELSE IF checks /\ AddOverflows(col, d_col)
    THEN [add |-> 0, panic |-> AddOverflow]
    ELSE IF w = 0
    THEN [add |-> 0, panic |-> RemainderByZero]
    ELSE NeighRead(cs, get_index(w, checks,
                                 wrapping_rem(wrapping_add(row, d_row), h),
                                 wrapping_rem(wrapping_add(col, d_col), w)))

\* The count after a pass that gave t: a panic keeps the count as it was.
NeighAdd(acc, t) == [count |-> acc.count + t.add, panic |-> t.panic]

\* The two nested loops, flattened: pass k (0..8) has d_row = Deltas(h)[k \div 3 + 1]
\* and d_col = Deltas(w)[k % 3 + 1].  The array of the inner loop is built at
\* the start of every pass of the outer one (k % 3 = 0).  acc is the count so
\* far and the panic of the pass before, which ends the loops.
RECURSIVE NeighLoop(_, _, _, _, _, _, _, _)
NeighLoop(w, h, cs, checks, row, col, k, acc) ==
    IF acc.panic # NoPanic \/ k = 9
    THEN acc
    ELSE IF k % 3 = 0 /\ checks /\ w = 0
    THEN [count |-> acc.count, panic |-> SubtractOverflow]
    ELSE NeighLoop(w, h, cs, checks, row, col, k + 1,
                   NeighAdd(acc, NeighTerm(w, h, cs, checks, row, col,
                                           Deltas(h)[(k \div 3) + 1],
                                           Deltas(w)[(k % 3) + 1])))

neigh_alive_count(w, h, cs, checks, row, col) ==
    IF checks /\ h = 0
    THEN [count |-> 0, panic |-> SubtractOverflow]
    ELSE NeighLoop(w, h, cs, checks, row, col, 0, [count |-> 0, panic |-> NoPanic])

(* ------------------------------- tick ---------------------------------- *)

\* A variant of the match in which a live cell survives with 2 neighbours only.
future_cell_two_only(cell, alive_count) ==
    IF cell = Alive /\ alive_count = 2 THEN Alive
    ELSE IF cell = Dead /\ alive_count = 3 THEN Alive
    ELSE Dead

\* The match of tick on (cell, alive_count).
future_cell(cell, alive_count) ==
    IF cell = Alive /\ alive_count < 2 THEN Dead
    ELSE IF cell = Alive /\ (alive_count = 2 \/ alive_count = 3) THEN Alive
    ELSE IF cell = Alive /\ alive_count > 3 THEN Dead
    ELSE IF cell = Dead /\ alive_count = 3 THEN Alive
    ELSE cell

\* The accesses of the loop body of tick in source order, g being what
\* get_index(row, col) gave and n what neigh_alive_count(row, col) gave:
\* self.cells[i] (cur) is read, then the neighbours are counted, then
\* future[i] is written; both Vec accesses are bounds-checked.
TickWrite(cur, future, g, n) ==
    IF g.panic # NoPanic
    THEN [cells |-> future, panic |-> g.panic]
    ELSE IF ~InBounds(cur, g.i)
    THEN [cells |-> future, panic |-> IndexOutOfBounds]
    ELSE IF n.panic # NoPanic
    THEN [cells |-> future, panic |-> n.panic]
    ELSE IF ~InBounds(future, g.i)
    THEN [cells |-> future, panic |-> IndexOutOfBounds]
    ELSE [cells |-> [future EXCEPT ![g.i + 1] = future_cell(cur[g.i + 1], n.count)],
          panic |-> NoPanic]

\* A variant of the loop body that updates in place: it reads the cell and its
\* neighbours from the buffer it writes.
TickStepInPlace(w, h, cur, checks, future, row, col) ==
    TickWrite(future, future, get_index(w, checks, row, col),
              neigh_alive_count(w, h, future, checks, row, col))

\* The body of the loops of tick for one (row, col): the cell and its
\* neighbours are read from self.cells (cur).
TickStep(w, h, cur, checks, future, row, col) ==
    TickWrite(cur, future, get_index(w, checks, row, col),
              neigh_alive_count(w, h, cur, checks, row, col))

\* A variant of the inner loop over the inclusive range 0..=self.width.
RECURSIVE TickColsInclusive(_, _, _, _, _, _, _)
TickColsInclusive(w, h, cur, checks, s, row, col) ==
    IF s.panic # NoPanic \/ ULess(w, col)
    THEN s
    ELSE TickColsInclusive(w, h, cur, checks,
                           TickStep(w, h, cur, checks, s.cells, row, col), row, col + 1)

\* for col in 0..self.width.  s is future and the panic of the pass before,
\* which ends the loops.
RECURSIVE TickCols(_, _, _, _, _, _, _)
TickCols(w, h, cur, checks, s, row, col) ==
    IF s.panic # NoPanic \/ ~ULess(col, w)
    THEN s
    ELSE TickCols(w, h, cur, checks,
                  TickStep(w, h, cur, checks, s.cells, row, col), row, col + 1)

\* for row in 0..self.height.  With width = 0 the inner loop has no pass in
\* any row: the rows after the first leave future as the first did.
RECURSIVE TickRows(_, _, _, _, _, _)
TickRows(w, h, cur, checks, s, row) ==
    IF s.panic # NoPanic \/ ~ULess(row, h) \/ (w = 0 /\ row # 0)
    THEN s
    ELSE TickRows(w, h, cur, checks, TickCols(w, h, cur, checks, s, row, 0), row + 1)

\* The loops of tick: future starts as a clone of self.cells.
TickResult(w, h, cs, checks) ==
    TickRows(w, h, cs, checks, [cells |-> cs, panic |-> NoPanic], 0)

\* Universe::tick.  future replaces self.cells when the loops end; a panic
\* leaves self.cells as it was.  With width = 0 or height = 0 the loops have
\* no pass.
tick ==
    /\ panic = NoPanic
    /\ LET r == TickResult(width, height, cells, overflow_checks)
       IN  /\ cells' = IF r.panic = NoPanic THEN r.cells ELSE cells
           /\ panic' = r.panic
    /\ pre' = IF ticks = 0 THEN Universe ELSE pre
    /\ ticks' = ticks + 1
    /\ UNCHANGED <<width, height, overflow_checks, call>>

(* --------------------------- resize, clear ----------------------------- *)

\* Universe::set_width.  self.width is stored before the product is formed:
\* when the product panics (a build with overflow checks, width * self.height
\* above u32::MAX) the new width stays with the old Vec; in a build without
\* overflow checks the Vec has the product modulo 2^32 cells.  A Vec of 2^31
\* cells or more is not modelled.
set_width(w) ==
    /\ panic = NoPanic
    /\ width' = w
    /\ IF overflow_checks /\ MulOverflows(w, height)
       THEN /\ cells' = cells
            /\ panic' = MultiplyOverflow
       ELSE /\ wrapping_mul(w, height) >= 0
            /\ cells' = AllDead(wrapping_mul(w, height))
            /\ panic' = NoPanic
    /\ call' = [op |-> "set_width", arg |-> w]
    /\ pre' = Universe
    /\ ticks' = 0
    /\ UNCHANGED <<height, overflow_checks>>

\* A variant of set_height that stores the new height in the width field.
set_height_into_width(h) ==
    /\ panic = NoPanic
    /\ width' = h
    /\ IF overflow_checks /\ MulOverflows(h, height)
       THEN /\ cells' = cells
            /\ panic' = MultiplyOverflow
       ELSE /\ wrapping_mul(h, height) >= 0
            /\ cells' = AllDead(wrapping_mul(h, height))
            /\ panic' = NoPanic
    /\ call' = [op |-> "set_height", arg |-> h]
    /\ pre' = Universe
    /\ ticks' = 0
    /\ UNCHANGED <<height, overflow_checks>>

\* Universe::set_height.  As set_width, with self.width * height.
set_height(h) ==
    /\ panic = NoPanic
    /\ height' = h
    /\ IF overflow_checks /\ MulOverflows(width, h)
       THEN /\ cells' = cells
            /\ panic' = MultiplyOverflow
       ELSE /\ wrapping_mul(width, h) >= 0
            /\ cells' = AllDead(wrapping_mul(width, h))
            /\ panic' = NoPanic
    /\ call' = [op |-> "set_height", arg |-> h]
    /\ pre' = Universe
    /\ ticks' = 0
    /\ UNCHANGED <<width, overflow_checks>>

\* A variant of clear that sizes the new Vec as a square of the width.
clear_square ==
    /\ panic = NoPanic
    /\ cells' = AllDead(width * width)
    /\ call' = [op |-> "clear"]
    /\ pre' = Universe
    /\ ticks' = 0
    /\ UNCHANGED <<width, height, overflow_checks, panic>>

\* Universe::clear
clear ==
    /\ panic = NoPanic
    /\ cells' = AllDead(Len(cells))
    /\ call' = [op |-> "clear"]
    /\ pre' = Universe
    /\ ticks' = 0
    /\ UNCHANGED <<width, height, overflow_checks, panic>>

(* ------------------------- direct editing ------------------------------ *)

\* Universe::toggle_cell.  The index is not checked against width and height,
\* only against the length of the Vec.
toggle_cell(row, col) ==
    /\ panic = NoPanic
    /\ LET g == get_index(width, overflow_checks, row, col)
       IN  IF g.panic # NoPanic
           THEN /\ cells' = cells
                /\ panic' = g.panic
           ELSE IF InBounds(cells, g.i)
           THEN /\ cells' = [cells EXCEPT ![g.i + 1] = toggle(cells[g.i + 1])]
                /\ panic' = NoPanic
           ELSE /\ cells' = cells
                /\ panic' = IndexOutOfBounds
    /\ call' = [op |-> "toggle_cell", row |-> row, col |-> col]
    /\ pre' = Universe
    /\ ticks' = 0
    /\ UNCHANGED <<width, height, overflow_checks>>

\* The loop of set_cells from pair k of the list on: the Vec it leaves and
\* the panic that ended it, if any.  Pairs before a failing one are written.
RECURSIVE SetCellsLoop(_, _, _, _, _)
SetCellsLoop(w, cs, checks, list, k) ==
    IF k > Len(list)
    THEN [cells |-> cs, panic |-> NoPanic]
    ELSE LET idx == get_index(w, checks, list[k][1], list[k][2])
         IN  IF idx.panic # NoPanic
             THEN [cells |-> cs, panic |-> idx.panic]
             ELSE IF InBounds(cs, idx.i)
             THEN SetCellsLoop(w, [cs EXCEPT ![idx.i + 1] = Alive], checks, list, k + 1)
             ELSE [cells |-> cs, panic |-> IndexOutOfBounds]

\* Universe::set_cells
set_cells(list) ==
    /\ panic = NoPanic
    /\ LET r == SetCellsLoop(width, cells, overflow_checks, list, 1)
       IN  /\ cells' = r.cells
           /\ panic' = r.panic
    /\ call' = [op |-> "set_cells", list |-> list]
    /\ pre' = Universe
    /\ ticks' = 0
    /\ UNCHANGED <<width, height, overflow_checks>>

\* A variant of the nine assignments that leaves the centre cell Alive.
GliderWritesCentreAlive ==
    << <<-1, -1, Dead>>,  <<-1, 0, Alive>>, <<-1, 1, Dead>>,
       << 0, -1, Dead>>,  << 0, 0, Alive>>, << 0, 1, Alive>>,
       << 1, -1, Alive>>, << 1, 0, Alive>>, << 1, 1, Alive>> >>

\* The nine assignments of insert_glider in source order, as
\* <<row offset, column offset, value written>>.
GliderWrites ==
    << <<-1, -1, Dead>>,  <<-1, 0, Alive>>, <<-1, 1, Dead>>,
       << 0, -1, Dead>>,  << 0, 0, Dead>>,  << 0, 1, Alive>>,
       << 1, -1, Alive>>, << 1, 0, Alive>>, << 1, 1, Alive>> >>

\* row - 1, row and row + 1 (col - 1, col and col + 1) for d = -1, 0 and 1.
\* row - 1 with row = 0 and row + 1 with row = u32::MAX overflow u32: a panic
\* in a build with overflow checks, the wrapped value in a build without.
GliderArg(v, d, checks) ==
    IF d = -1
    THEN IF checks /\ v = 0
         THEN [value |-> v, panic |-> SubtractOverflow]
         ELSE [value |-> wrapping_sub(v, 1), panic |-> NoPanic]
    ELSE IF d = 1
    THEN IF checks /\ v = U32Max
         THEN [value |-> v, panic |-> AddOverflow]
         ELSE [value |-> wrapping_add(v, 1), panic |-> NoPanic]
    ELSE [value |-> v, panic |-> NoPanic]

\* insert_glider from assignment k on.  The row argument of get_index is
\* evaluated before the column argument.
RECURSIVE GliderLoop(_, _, _, _, _, _)
GliderLoop(w, cs, checks, row, col, k) ==
    IF k > Len(GliderWrites)
    THEN [cells |-> cs, panic |-> NoPanic]
    ELSE LET r == GliderArg(row, GliderWrites[k][1], checks)
             c == GliderArg(col, GliderWrites[k][2], checks)
             g == get_index(w, checks, r.value, c.value)
         IN  IF r.panic # NoPanic
             THEN [cells |-> cs, panic |-> r.panic]
             ELSE IF c.panic # NoPanic
             THEN [cells |-> cs, panic |-> c.panic]
             ELSE IF g.panic # NoPanic
             THEN [cells |-> cs, panic |-> g.panic]
             ELSE IF InBounds(cs, g.i)
             THEN GliderLoop(w, [cs EXCEPT ![g.i + 1] = GliderWrites[k][3]],
                             checks, row, col, k + 1)
             ELSE [cells |-> cs, panic |-> IndexOutOfBounds]

\* Universe::insert_glider
insert_glider(row, col) ==
    /\ panic = NoPanic
    /\ LET r == GliderLoop(width, cells, overflow_checks, row, col, 1)
       IN  /\ cells' = r.cells
           /\ panic' = r.panic
    /\ call' = [op |-> "insert_glider", row |-> row, col |-> col]
    /\ pre' = Universe
    /\ ticks' = 0
    /\ UNCHANGED <<width, height, overflow_checks>>

(* --------------------- neigh_alive_count, called ------------------------ *)

\* A call of the private Universe::neigh_alive_count on its own; the value it
\* returns is kept in the record of the call.
call_neigh_alive_count(row, col) ==
    /\ panic = NoPanic
    /\ LET n == neigh_alive_count(width, height, cells, overflow_checks, row, col)
       IN  /\ call' = [op |-> "neigh_alive_count", row |-> row, col |-> col,
                       count |-> n.count]
           /\ panic' = n.panic
    /\ pre' = Universe
    /\ ticks' = 0
    /\ UNCHANGED <<width, height, cells, overflow_checks>>

(* --------------------------- specifications ---------------------------- *)

\* What every specification starts with: nothing has been called yet.
Fresh ==
    /\ overflow_checks \in BOOLEAN
    /\ panic = NoPanic
    /\ call = [op |-> "init"]
    /\ pre = Universe
    /\ ticks = 0

\* Spec: every universe of 1..MaxCells cells.  Universe::new builds a 64 x 64
\* universe with arbitrary content; set_width, set_height and set_cells take
\* it to any of the universes below.
Init ==
    /\ width \in 1..MaxCells
    /\ height \in 1..MaxCells
    /\ width * height <= MaxCells
    /\ cells \in [1..(width * height) -> Cell]
    /\ Fresh

\* The pairs handed to set_cells in Spec: the first and the last cell, the
\* first column right of the grid and the first row below it.
EditPairs ==
    { <<0, 0>>, <<wrapping_sub(height, 1), wrapping_sub(width, 1)>>,
      <<0, width>>, <<height, 0>> }

\* The rows (columns) handed to toggle_cell and insert_glider in Spec: those
\* of the grid and the first one beyond it, up to MaxCells.
Coords(n) == 0..(IF n < 0 \/ n > MaxCells THEN MaxCells ELSE n)

\* The arguments handed to set_width and set_height in Spec.
ResizeArgs == (0..MaxCells) \cup OverflowArgs

\* A resize to w x h is within the bounds of Spec: it panics, or it leaves a
\* Vec of at most MaxCells cells.
ResizeInBounds(w, h) ==
    \/ overflow_checks /\ MulOverflows(w, h)
    \/ wrapping_mul(w, h) \in 0..MaxCells

RECURSIVE ListsUpTo(_, _)
ListsUpTo(S, n) ==
    IF n = 0
    THEN { <<>> }
    ELSE ListsUpTo(S, n - 1)
         \cup { Append(l, p) : l \in { m \in ListsUpTo(S, n - 1) : Len(m) = n - 1 }, p \in S }

Next ==
    \/ ticks < MaxTicks /\ tick
    \/ clear
    \/ \E w \in ResizeArgs : ResizeInBounds(w, height) /\ set_width(w)
    \/ \E h \in ResizeArgs : ResizeInBounds(width, h) /\ set_height(h)
    \/ \E row \in Coords(height), col \in Coords(width) : toggle_cell(row, col)
    \/ \E list \in ListsUpTo(EditPairs, MaxPairs) : set_cells(list)
    \/ \E row \in Coords(height), col \in Coords(width) : insert_glider(row, col)

Spec == Init /\ [][Next]_vars

TypeOK ==
    /\ width \in Int
    /\ height \in Int
    /\ cells \in Seq(Cell)
    /\ overflow_checks \in BOOLEAN
    /\ ticks \in Nat
    /\ panic \in Panics

(* SpecGlider and SpecBlock: a known pattern is placed on a large all-Dead   *)
(* universe (as left by set_width and set_height) and tick is called         *)
(* repeatedly.                                                               *)

InitLarge ==
    /\ width \in 8..MaxLargeDim
    /\ height \in 8..MaxLargeDim
    /\ cells = AllDead(width * height)
    /\ Fresh

NextGlider ==
    \/ /\ call.op = "init"
       /\ \E row \in 1..(height - 2), col \in 1..(width - 2) : insert_glider(row, col)
    \/ /\ call.op # "init"
       /\ ticks < MaxGliderTicks
       /\ tick

SpecGlider == InitLarge /\ [][NextGlider]_vars

\* The list that makes the 2 x 2 block with top-left cell (row, col) Alive.
Block(row, col) ==
    << <<row, col>>, <<row, col + 1>>, <<row + 1, col>>, <<row + 1, col + 1>> >>

NextBlock ==
    \/ /\ call.op = "init"
       /\ \E row \in 0..(height - 2), col \in 0..(width - 2) : set_cells(Block(row, col))
    \/ /\ call.op # "init"
       /\ ticks < MaxBlockTicks
       /\ tick

SpecBlock == InitLarge /\ [][NextBlock]_vars

(* SpecNeigh: one call of neigh_alive_count for a cell of the grid, on every  *)
(* universe of 1..MaxNeighCells cells.                                        *)

InitNeigh ==
    /\ width \in 1..MaxNeighCells
    /\ height \in 1..MaxNeighCells
    /\ width * height <= MaxNeighCells
    /\ cells \in [1..(width * height) -> Cell]
    /\ Fresh

NextNeigh ==
    /\ call.op = "init"
    /\ \E row \in 0..(height - 1), col \in 0..(width - 1) : call_neigh_alive_count(row, col)

SpecNeigh == InitNeigh /\ [][NextNeigh]_vars

(* SpecShift: one call of tick on every universe of 1..MaxShiftCells cells.   *)

InitShift ==
    /\ width \in 1..MaxShiftCells
    /\ height \in 1..MaxShiftCells
    /\ width * height <= MaxShiftCells
    /\ cells \in [1..(width * height) -> Cell]
    /\ Fresh

NextShift ==
    /\ ticks = 0
    /\ tick

SpecShift == InitShift /\ [][NextShift]_vars

(* SpecStamp: one call of insert_glider, with coordinates inside the grid and *)
(* on its border, on universes whose content is all-Dead or all-Alive up to   *)
(* MaxOdd cells.                                                              *)

RECURSIVE SmallSubsets(_, _)
SmallSubsets(S, m) ==
    IF m = 0
    THEN { {} }
    ELSE LET P == SmallSubsets(S, m - 1)
         IN  P \cup { s \cup {k} : s \in P, k \in S }

NearUniform(n) ==
    { [k \in 1..n |-> IF k \in odd THEN toggle(base) ELSE base] :
          base \in Cell, odd \in SmallSubsets(1..n, MaxOdd) }

InitStamp ==
    /\ width \in 1..MaxStampDim
    /\ height \in 1..MaxStampDim
    /\ cells \in NearUniform(width * height)
    /\ Fresh

NextStamp ==
    /\ call.op = "init"
    /\ \E row \in 0..height, col \in 0..width : insert_glider(row, col)

SpecStamp == InitStamp /\ [][NextStamp]_vars

(* ======================= properties of the program ===================== *)

\* The cell at (row, col) of a grid of w columns.
At(w, cs, row, col) == cs[row * w + col + 1]

AlivePositions(w, h, cs) ==
    { p \in (0..(h - 1)) \X (0..(w - 1)) : At(w, cs, p[1], p[2]) = Alive }

\* The last call was the edit `op` and no tick has followed it.
JustCalled(op) == call.op = op /\ ticks = 0

(* ---- C1 ---- *)

\* The eight offsets of the Moore neighbourhood.
Offsets == { d \in {-1, 0, 1} \X {-1, 0, 1} : d # <<0, 0>> }

\* The number of offsets at which, modulo the dimensions, an Alive cell lies.
LifeNeighbours(w, h, cs, row, col) ==
    Cardinality({ d \in Offsets : At(w, cs, (row + d[1]) % h, (col + d[2]) % w) = Alive })

LifeRule(c, n) ==
    IF c = Alive
    THEN (IF n = 2 \/ n = 3 THEN Alive ELSE Dead)
    ELSE (IF n = 3 THEN Alive ELSE Dead)

\* One generation of the standard rule, every cell from the old grid.
LifeStep(w, h, cs) ==
    [k \in 1..(w * h) |->
        LifeRule(cs[k], LifeNeighbours(w, h, cs, (k - 1) \div w, (k - 1) % w))]

RECURSIVE LifeSteps(_, _, _, _)
LifeSteps(w, h, cs, n) ==
    IF n = 0 THEN cs ELSE LifeSteps(w, h, LifeStep(w, h, cs), n - 1)

\* C1: on every universe with width >= 1 and height >= 1, after n calls of
\* tick the grid is the standard rule applied n times to the grid before
\* them, each cell computed from the old generation's eight toroidal
\* neighbours.
C1_TickIsLifeRule ==
    (ticks >= 1 /\ pre.width >= 1 /\ pre.height >= 1)
        => cells = LifeSteps(pre.width, pre.height, pre.cells, ticks)

(* ---- C2 ---- *)

\* C2: in every reachable state the length of the cell sequence is
\* width * height (the product of the two numbers, which is below 2^32).
C2_LengthIsWidthTimesHeight ==
    /\ ~MulOverflows(width, height)
    /\ Len(cells) = wrapping_mul(width, height)

(* ---- C3 ---- *)

\* C3: on a universe with width >= 1 and height >= 1, toggle_cell(height, 0)
\* and toggle_cell(0, width) fail with an out-of-bounds error and toggle no
\* cell.
C3_ToggleOutsideFails ==
    ( /\ JustCalled("toggle_cell")
      /\ pre.width >= 1
      /\ pre.height >= 1
      /\ \/ call.row = pre.height /\ call.col = 0
         \/ call.row = 0 /\ call.col = pre.width )
        => (panic = IndexOutOfBounds /\ cells = pre.cells)

(* ---- C4 ---- *)

\* The Alive cells of the glider, as offsets from its centre.
GliderAliveOffsets == { <<-1, 0>>, <<0, 1>>, <<1, -1>>, <<1, 0>>, <<1, 1>> }

\* The glider centred at (row, col), moved by (d_row, d_col) on the torus.
GliderAt(w, h, row, col, d_row, d_col) ==
    { <<(row + o[1] + d_row) % h, (col + o[2] + d_col) % w>> : o \in GliderAliveOffsets }

\* C4: on an all-Dead grid of at least 8 x 8, insert_glider(r, c) with
\* 1 <= r, r + 1 < height, 1 <= c, c + 1 < width followed by exactly 4 calls
\* of tick leaves exactly the five glider cells Alive, moved by one row and
\* one column modulo the dimensions.
C4_GliderMovesDiagonally ==
    ( /\ call.op = "insert_glider"
      /\ ticks = 4
      /\ width >= 8 /\ height >= 8
      /\ call.row >= 1 /\ call.row + 1 < height
      /\ call.col >= 1 /\ call.col + 1 < width )
        => AlivePositions(width, height, cells)
               = GliderAt(width, height, call.row, call.col, 1, 1)

\* A glider placed against the bottom and right edges has wrapped round.
C4_Witness ==
    /\ call.op = "insert_glider"
    /\ ticks = 4
    /\ width >= 8 /\ height >= 8
    /\ call.row = height - 2
    /\ call.col = width - 2
    /\ Cardinality(AlivePositions(width, height, cells)) = 5
    /\ At(width, cells, 0, 0) = Alive

(* ---- C5 ---- *)

\* What insert_glider asks of its caller.
GliderFits(w, h, row, col) ==
    row >= 1 /\ col >= 1 /\ row + 1 < h /\ col + 1 < w

\* C5: insert_glider(row, col) fails whenever row >= 1, col >= 1,
\* row + 1 < height, col + 1 < width is violated; it never runs to
\* completion writing at wrapped positions.
C5_GliderOutsideFails ==
    ( /\ JustCalled("insert_glider")
      /\ ~GliderFits(pre.width, pre.height, call.row, call.col) )
        => panic # NoPanic

(* ---- C6 ---- *)

\* The stamped pattern, row-major from (row - 1, col - 1) to (row + 1, col + 1).
GliderPattern ==
    << <<Dead,  Alive, Dead>>,
       <<Dead,  Dead,  Alive>>,
       <<Alive, Alive, Alive>> >>

InStampedBlock(row, col, r, c) ==
    r >= row - 1 /\ r <= row + 1 /\ c >= col - 1 /\ c <= col + 1

\* C6: insert_glider(row, col) with 1 <= row, row + 1 < height, 1 <= col,
\* col + 1 < width completes; afterwards the 3 x 3 block around (row, col)
\* holds the glider pattern, and every other cell, the width and the height
\* are what they were.
C6_GliderStampsBlockOnly ==
    ( /\ JustCalled("insert_glider")
      /\ GliderFits(pre.width, pre.height, call.row, call.col) )
        => /\ panic = NoPanic
           /\ width = pre.width
           /\ height = pre.height
           /\ Len(cells) = Len(pre.cells)
           /\ \A r \in 0..(height - 1), c \in 0..(width - 1) :
                 At(width, cells, r, c) =
                     IF InStampedBlock(call.row, call.col, r, c)
                     THEN GliderPattern[r - call.row + 2][c - call.col + 2]
                     ELSE At(width, pre.cells, r, c)

\* An all-Alive grid but for one cell: the stamp killed cells in the block and
\* kept Alive ones outside.
C6_Witness ==
    /\ JustCalled("insert_glider")
    /\ GliderFits(pre.width, pre.height, call.row, call.col)
    /\ panic = NoPanic
    /\ At(width, pre.cells, call.row, call.col) = Alive
    /\ At(width, cells, call.row, call.col) = Dead
    /\ \E r \in 0..(height - 1), c \in 0..(width - 1) :
          /\ ~InStampedBlock(call.row, call.col, r, c)
          /\ At(width, cells, r, c) = Alive

(* ---- C7 ---- *)

NoneAlive(cs) == \A k \in 1..Len(cs) : cs[k] = Dead

\* C7: set_width(w2) leaves width = w2, the height it found, w2 * height
\* cells and all of them Dead; set_height(h2) leaves height = h2, the width it
\* found, width * h2 cells and all of them Dead.  This includes a resize to
\* the dimension the universe already has.
C7_ResizeClears ==
    /\ JustCalled("set_width") =>
          /\ width = call.arg
          /\ height = pre.height
          /\ ~MulOverflows(call.arg, pre.height)
          /\ Len(cells) = wrapping_mul(call.arg, pre.height)
          /\ NoneAlive(cells)
    /\ JustCalled("set_height") =>
          /\ height = call.arg
          /\ width = pre.width
          /\ ~MulOverflows(pre.width, call.arg)
          /\ Len(cells) = wrapping_mul(pre.width, call.arg)
          /\ NoneAlive(cells)

(* ---- C8 ---- *)

\* C8: clear leaves every cell Dead and the width, the height and the number
\* of cells as they were; a second clear right after a clear changes nothing
\* of the universe.
C8_ClearIsIdempotent ==
    /\ [](JustCalled("clear") =>
            /\ NoneAlive(cells)
            /\ width = pre.width
            /\ height = pre.height
            /\ Len(cells) = Len(pre.cells))
    /\ [][(JustCalled("clear") /\ call'.op = "clear" /\ ticks' = 0)
             => (cells' = cells /\ width' = width /\ height' = height)]_vars

\* A clear of a universe that was all Dead already, as the second of two
\* clears in a row is.
C8_Witness ==
    /\ JustCalled("clear")
    /\ Len(cells) >= 2
    /\ NoneAlive(cells)
    /\ pre = Universe

(* ---- C9 ---- *)

\* C9: a 2 x 2 block of Alive cells on an otherwise Dead 8 x 8 grid (the
\* block at rows 1..2, columns 1..2 among them) is the same grid after every
\* number of ticks.
C9_BlockIsStill ==
    ( /\ call.op = "set_cells"
      /\ ticks >= 1
      /\ \E row \in 0..(height - 2), col \in 0..(width - 2) : call.list = Block(row, col) )
        => /\ cells = pre.cells
           /\ AlivePositions(width, height, cells) = { call.list[k] : k \in 1..4 }

C9_Witness ==
    /\ call.op = "set_cells"
    /\ call.list = Block(1, 1)
    /\ width = 8 /\ height = 8
    /\ ticks >= 2
    /\ AlivePositions(width, height, cells) = { <<1, 1>>, <<1, 2>>, <<2, 1>>, <<2, 2>> }

(* ---- C10 ---- *)

\* C10: set_cells fails with an out-of-bounds error for every list that holds
\* a pair with row >= height or col >= width.
C10_SetCellsOutsideFails ==
    ( /\ JustCalled("set_cells")
      /\ \E k \in 1..Len(call.list) :
            call.list[k][1] >= pre.height \/ call.list[k][2] >= pre.width )
        => panic = IndexOutOfBounds

(* ---- C11 ---- *)

\* C11: toggle_cell(row, col) with row < height and col < width completes,
\* flips the cell at flat index row * width + col and leaves every other
\* cell, the width and the height as they were; a second toggle_cell of the
\* same position right after it restores the grid the first one found.
C11_ToggleFlipsOneCell ==
    /\ []( ( /\ JustCalled("toggle_cell")
             /\ ULess(call.row, pre.height)
             /\ ULess(call.col, pre.width) )
           => /\ panic = NoPanic
              /\ width = pre.width
              /\ height = pre.height
              /\ Len(cells) = Len(pre.cells)
              /\ \A k \in 1..Len(cells) :
                    IF k = wrapping_add(wrapping_mul(call.row, width), call.col) + 1
                    THEN cells[k] # pre.cells[k]
                    ELSE cells[k] = pre.cells[k] )
    /\ [][ ( /\ JustCalled("toggle_cell")
             /\ ULess(call.row, height)
             /\ ULess(call.col, width)
             /\ call' = call
             /\ ticks' = 0 )
           => cells' = pre.cells ]_vars

(* ---- C12 ---- *)

\* The grid with the cell at (row, col) flipped and every other cell kept.
WithCellFlipped(w, cs, row, col) ==
    [cs EXCEPT ![row * w + col + 1] = IF cs[row * w + col + 1] = Alive THEN Dead ELSE Alive]

\* neigh_alive_count(row, col) returned a value in 0..8 which it also returns
\* on the grid that differs in the cell (row, col) only.
CountIgnoresOwnCell ==
    /\ panic = NoPanic
    /\ call.count \in 0..8
    /\ call.count =
          neigh_alive_count(width, height, WithCellFlipped(width, cells, call.row, call.col),
                            overflow_checks, call.row, call.col).count

\* C12 as stated: on every universe with width >= 1 and height >= 1 and for
\* every in-range (row, col), neigh_alive_count(row, col) is in 0..8 and does
\* not change when only the cell (row, col) changes.
C12_CountExcludesCell ==
    (call.op = "neigh_alive_count" /\ width >= 1 /\ height >= 1)
        => CountIgnoresOwnCell

\* C12 amended: neigh_alive_count(row, col) is in 0..8 on every universe with
\* width >= 1 and height >= 1, and on those with width >= 2 and height >= 2
\* it does not change when only the cell (row, col) changes.
C12_CountExcludesCellFromTwo ==
    /\ (call.op = "neigh_alive_count" /\ width >= 1 /\ height >= 1)
          => (panic = NoPanic /\ call.count \in 0..8)
    /\ (call.op = "neigh_alive_count" /\ width >= 2 /\ height >= 2)
          => CountIgnoresOwnCell

\* An Alive cell all of whose eight neighbours are Alive.
C12_Witness ==
    /\ call.op = "neigh_alive_count"
    /\ width >= 3 /\ height >= 3
    /\ At(width, cells, call.row, call.col) = Alive
    /\ call.count = 8

(* ---- C13 ---- *)

\* The cells above, below, left and right of (row, col) on the torus.
WrappedCross(w, h, row, col) ==
    { <<(row - 1) % h, col>>, <<(row + 1) % h, col>>,
      <<row, (col - 1) % w>>, <<row, (col + 1) % w>> }

\* C13: neighbour lookup wraps: the cell above row 0 is the one in row
\* height - 1 and the cell below row height - 1 the one in row 0, likewise
\* for the columns 0 and width - 1, and each of them that is Alive is
\* counted; no lookup for an in-range cell leaves the Vec.
C13_NeighboursWrap ==
    (call.op = "neigh_alive_count")
        => /\ panic = NoPanic
           /\ call.count >=
                 Cardinality({ p \in WrappedCross(width, height, call.row, call.col) :
                                  At(width, cells, p[1], p[2]) = Alive })

\* Row 0 of a grid of three rows or more sees the only Alive cell, in the
\* last row; column 0 likewise.
C13_Witness ==
    /\ call.op = "neigh_alive_count"
    /\ height >= 3 /\ width >= 3
    /\ call.row = 0 /\ call.col = 0
    /\ AlivePositions(width, height, cells) = { <<height - 1, 0>> }
    /\ call.count = 1

(* ---- C14 ---- *)

\* tick has been called on a universe whose width or height is 0, which only
\* set_width(0) or set_height(0) produces.
TickedWithoutCells == ticks >= 1 /\ (width = 0 \/ height = 0)

\* C14 as stated: on a universe whose width or height is 0, tick fails with a
\* division or modulo by zero inside neighbour counting.
C14_TickFailsOnZeroDimension ==
    TickedWithoutCells => panic = RemainderByZero

\* C14 amended: on a universe whose width or height is 0, tick does not
\* reach neighbour counting; it completes without a failure and leaves the
\* empty cell sequence, the width and the height as they were.
C14_TickSkipsZeroDimension ==
    TickedWithoutCells
        => /\ panic = NoPanic
           /\ cells = << >>
           /\ cells = pre.cells
           /\ width = pre.width
           /\ height = pre.height

\* tick right after set_width(0) on a universe with rows.
C14_Witness ==
    /\ call.op = "set_width"
    /\ call.arg = 0
    /\ ticks >= 1
    /\ width = 0
    /\ height >= 1
    /\ panic = NoPanic

(* ---- C15 ---- *)

\* The grid moved by (d_row, d_col) on the torus: what was at (r, c) is at
\* ((r + d_row) % h, (c + d_col) % w).
Translate(w, h, cs, d_row, d_col) ==
    [k \in 1..(w * h) |->
        At(w, cs, (((k - 1) \div w) - d_row) % h, (((k - 1) % w) - d_col) % w)]

\* C15: on every grid with width >= 1 and height >= 1 and for every shift,
\* moving the grid and then calling tick gives the grid that calling tick and
\* then moving gives.
C15_TickCommutesWithShift ==
    (ticks = 1 /\ width >= 1 /\ height >= 1)
        => \A d_row \in 0..(height - 1), d_col \in 0..(width - 1) :
              LET moved == TickResult(width, height,
                                      Translate(width, height, pre.cells, d_row, d_col),
                                      overflow_checks)
              IN  /\ moved.panic = NoPanic
                  /\ moved.cells = Translate(width, height, cells, d_row, d_col)

\* A tick that changed a grid which no shift by one row or one column maps to
\* itself.
C15_Witness ==
    /\ ticks = 1
    /\ width >= 2 /\ height >= 2
    /\ panic = NoPanic
    /\ cells # pre.cells
    /\ Translate(width, height, cells, 1, 0) # cells
    /\ Translate(width, height, cells, 0, 1) # cells

(* ---- C16 ---- *)

\* C16: tick, toggle_cell, clear, set_cells and insert_glider leave the width
\* and the height as they found them; set_width sets the width and leaves
\* the height, set_height sets the height and leaves the width.  A universe
\* therefore keeps the dimensions it was built with until a resize is called.
C16_OnlyResizesChangeDimensions ==
    /\ (ticks >= 1 \/ call.op \in {"toggle_cell", "clear", "set_cells", "insert_glider"})
          => (width = pre.width /\ height = pre.height)
    /\ JustCalled("set_width") => (width = call.arg /\ height = pre.height)
    /\ JustCalled("set_height") => (height = call.arg /\ width = pre.width)

\* set_height gave a universe of several columns another height.
C16_Witness ==
    /\ JustCalled("set_height")
    /\ width >= 2
    /\ height # pre.height
    /\ height # width
    /\ width = pre.width

====
